---- MODULE Spec2Model ----
(***************************************************************************)
(* The EmergentDB TypeScript client (src/typescript/src/index.ts) as a     *)
(* state machine: one client object, the calls made on it, the requests    *)
(* it has put on the wire and the responses the remote service gave.       *)
(*                                                                         *)
(* JavaScript values are modelled as follows.  A string is a TLA+ string   *)
(* (Len and SubSeq work on it).  An optional argument is None (undefined)  *)
(* or Some(v).  An object is a record whose DOMAIN is the set of its own   *)
(* properties, so "the body has no namespace field" is                     *)
(* "namespace" \notin DOMAIN body.  A decoded JSON value that came from    *)
(* the service is tagged with its JSON type, [type |-> t, val |-> v],      *)
(* because the response schemas decide on the type of each field.          *)
(***************************************************************************)
EXTENDS Integers, Sequences, FiniteSets, TLC

\* ---------------------------------------------------------------- bounds

\* The longest input of a batch call has MaxChunks * BATCH_SIZE entries.
MaxChunks == 3

\* The number of call slots of the client.  Under Spec a behaviour makes one
\* call, in the first slot (Sole).
MaxCalls == 2

\* ------------------------------------------------------ program constants

\* const BATCH_SIZE = 1000 of batchInsertAll.
BATCH_SIZE == 1000

\* The literal of batchInsert's guard, vectors.length > 1000.
MAX_BATCH == 1000

\* options?.k ?? 10 of search.
DEFAULT_K == 10

DEFAULT_BASE_URL == "https://api.emergentdb.com"

\* ------------------------------------------------------------ JS values

None == <<>>
Some(v) == <<v>>

\* The object {}.
EmptyObject == [f \in {} |-> 0]

Min(a, b) == IF a < b THEN a ELSE b

\* String.prototype.startsWith.
StartsWith(s, prefix) ==
  /\ Len(s) >= Len(prefix)
  /\ SubSeq(s, 1, Len(prefix)) = prefix

\* Array.prototype.slice(begin, end) for 0 <= begin <= end: the elements at
\* the 0-based positions begin .. min(end, length) - 1.
Slice(arr, begin, end) == SubSeq(arr, begin + 1, Min(end, Len(arr)))

\* ------------------------------------------------------- decoded JSON

JNull == [type |-> "null", val |-> 0]
JBool(b) == [type |-> "bool", val |-> b]
\* A JSON number that is an integer, and one that is not (val: its text).
JInt(n) == [type |-> "int", val |-> n]
JFloat(t) == [type |-> "float", val |-> t]
JStr(s) == [type |-> "string", val |-> s]
\* An array of integers, an array of strings, an array of objects.
JIntArray(a) == [type |-> "intarray", val |-> a]
JStrArray(a) == [type |-> "strarray", val |-> a]
JObjArray(a) == [type |-> "objarray", val |-> a]
\* An object: val is the record of its (tagged) properties.
JObj(fields) == [type |-> "object", val |-> fields]

\* What resp.json() gives: the decoded value, or a rejection when the body
\* is not JSON text.
NotJson == [json |-> FALSE, data |-> JNull]
Json(v) == [json |-> TRUE, data |-> v]

\* ------------------------------------------------------------- schemas

\* A field of a z.object: the type it requires, whether it may be absent
\* (.optional()), and its .default(), if any.
Field(t) == [type |-> t, optional |-> FALSE, default |-> None, elem |-> EmptyObject]
OptionalField(t) == [type |-> t, optional |-> TRUE, default |-> None, elem |-> EmptyObject]
DefaultField(t, d) == [type |-> t, optional |-> FALSE, default |-> Some(d), elem |-> EmptyObject]
ArrayOf(schema) == [type |-> "objarray", optional |-> FALSE, default |-> None, elem |-> schema]

InsertResultSchema ==
  [success |-> Field("bool"), id |-> Field("int"),
   namespace |-> Field("string"), upserted |-> Field("bool")]

BatchInsertResultSchema ==
  [success |-> Field("bool"), ids |-> Field("intarray"), count |-> Field("int"),
   namespace |-> Field("string"), new_count |-> Field("int"),
   upserted_count |-> Field("int")]

SearchResultSchema ==
  [id |-> Field("int"), score |-> Field("number"),
   metadata |-> OptionalField("object")]

\* Variant: count has a default as well.
SearchResponseSchema_CountDefaulted ==
  [results |-> ArrayOf(SearchResultSchema), count |-> DefaultField("int", 0),
   namespace |-> DefaultField("string", "default")]

SearchResponseSchema ==
  [results |-> ArrayOf(SearchResultSchema), count |-> Field("int"),
   namespace |-> DefaultField("string", "default")]

DeleteResultSchema ==
  [deleted |-> Field("bool"), id |-> Field("int"), namespace |-> Field("string")]

NamespacesResponseSchema == [namespaces |-> Field("strarray")]

\* The analytics schemas: z.union([z.string(), z.number()]) is the type
\* "string|number", z.string().nullable() the type "string|null".
EndpointStatsSchema ==
  [endpoint |-> Field("string"), requestCount |-> Field("string|number"),
   totalBytes |-> Field("string|number"), avgLatencyMs |-> Field("string|number"),
   p95LatencyMs |-> Field("string|number"), errorCount |-> Field("string|number")]

EndpointsResponseSchema == [endpoints |-> ArrayOf(EndpointStatsSchema)]

NamespaceStatsSchema ==
  [namespace |-> Field("string|null"), requestCount |-> Field("string|number"),
   totalVectors |-> Field("string|number"), avgLatencyMs |-> Field("string|number")]

NamespaceAnalyticsResponseSchema == [namespaces |-> ArrayOf(NamespaceStatsSchema)]

LatencyEntrySchema ==
  [date |-> Field("string"), p50 |-> Field("string|number"),
   p95 |-> Field("string|number"), p99 |-> Field("string|number"),
   requestCount |-> Field("string|number")]

LatencyResponseSchema == [latency |-> ArrayOf(LatencyEntrySchema)]

ErrorEntrySchema ==
  [date |-> Field("string"), totalRequests |-> Field("string|number"),
   errorCount |-> Field("string|number"), error4xx |-> Field("string|number"),
   error5xx |-> Field("string|number")]

ErrorsResponseSchema == [errors |-> ArrayOf(ErrorEntrySchema)]

KeyStatsSchema ==
  [apiKeyId |-> Field("string|null"), keyName |-> Field("string|null"),
   keyPrefix |-> Field("string|null"), requestCount |-> Field("string|number"),
   totalBytes |-> Field("string|number"), avgLatencyMs |-> Field("string|number"),
   lastUsed |-> Field("string|null")]

KeysResponseSchema == [keys |-> ArrayOf(KeyStatsSchema)]

GrowthEntrySchema ==
  [date |-> Field("string"), vectorCount |-> Field("string|number")]

GrowthResponseSchema == [growth |-> ArrayOf(GrowthEntrySchema)]

\* Whether a decoded value has the type a schema field requires
\* (z.number() takes any number, z.number().int() only an integer).
HasType(v, t) ==
  CASE t = "number" -> v.type \in {"int", "float"}
    [] t = "string|number" -> v.type \in {"string", "int", "float"}
    [] t = "string|null" -> v.type \in {"string", "null"}
    [] OTHER -> v.type = t

RECURSIVE Conforms(_, _)
\* schema.parse accepts the decoded value v: an object that has every field
\* of the schema that is neither optional nor defaulted, each field present
\* being of its type (and, for an array of objects, each element conforming).
Conforms(schema, v) ==
  /\ v.type = "object"
  /\ \A f \in DOMAIN schema :
       IF f \in DOMAIN v.val
         THEN /\ HasType(v.val[f], schema[f].type)
              /\ schema[f].type = "objarray" =>
                   \A k \in 1..Len(v.val[f].val) :
                     Conforms(schema[f].elem, v.val[f].val[k])
         ELSE schema[f].optional \/ schema[f].default # None

RECURSIVE Parsed(_, _)
\* The value schema.parse returns for a conforming v: the fields of the
\* schema, untagged, a defaulted field that is absent taking its default.
Parsed(schema, v) ==
  [f \in {g \in DOMAIN schema : g \in DOMAIN v.val \/ schema[g].default # None} |->
     IF f \notin DOMAIN v.val THEN schema[f].default[1]
     ELSE IF schema[f].type = "objarray"
       THEN [k \in 1..Len(v.val[f].val) |-> Parsed(schema[f].elem, v.val[f].val[k])]
       ELSE v.val[f].val]

\* -------------------------------------------------------------- errors

\* A thrown value: its class, its message and, for EmergentDBError, the
\* status and body it carries.
PlainError(message) ==
  [name |-> "Error", message |-> message, status |-> None, body |-> None]

\* Variant: the status is not kept on the error.
EmergentDBError_NoStatus(message, status, body) ==
  [name |-> "EmergentDBError", message |-> message,
   status |-> None, body |-> Some(body)]

EmergentDBError(message, status, body) ==
  [name |-> "EmergentDBError", message |-> message,
   status |-> Some(status), body |-> Some(body)]

\* The rejection of resp.json() on a body that is not JSON text.
JsonDecodeError ==
  [name |-> "SyntaxError", message |-> "Unexpected token in JSON",
   status |-> None, body |-> None]

\* Reading data.error when data is null.
NullDataError ==
  [name |-> "TypeError", message |-> "Cannot read properties of null",
   status |-> None, body |-> None]

\* What schema.parse throws on a value that does not conform.
SchemaError ==
  [name |-> "ValidationError", message |-> "Validation failed",
   status |-> None, body |-> None]

\* --------------------------------------------------------- constructor

\* Variant: the prefix is not checked.
KeyAccepted_NoPrefixCheck(apiKey) == apiKey # ""

\* The constructor's guard, negated: !apiKey || !apiKey.startsWith("emdb_")
\* throws.

KeyAccepted(apiKey) == apiKey # "" /\ StartsWith(apiKey, "emdb_")

\* options?.baseUrl ?? "https://api.emergentdb.com"
BaseUrlOf(options) ==
  IF options # None /\ options[1].baseUrl # None
    THEN options[1].baseUrl[1]
    ELSE DEFAULT_BASE_URL

\* ------------------------------------------------------ request shaping

\* Variant: every namespace given is sent, the default one too.
NamespaceField_Always(namespace) ==
  IF namespace # None THEN [namespace |-> namespace[1]] ELSE EmptyObject

\* ...(namespace && namespace !== "default" ? { namespace } : {})

NamespaceField(namespace) ==
  IF namespace # None /\ namespace[1] # "" /\ namespace[1] # "default"
    THEN [namespace |-> namespace[1]]
    ELSE EmptyObject

\* A property whose value is undefined is left out by JSON.stringify.
MetadataField(metadata) ==
  IF metadata # None THEN [metadata |-> metadata[1]] ELSE EmptyObject

InsertBody(id, vector, metadata, namespace) ==
  [id |-> id, vector |-> vector] @@ MetadataField(metadata)
    @@ NamespaceField(namespace)

BatchInsertBody(vectors, namespace) ==
  [vectors |-> vectors] @@ NamespaceField(namespace)

\* options?.k ?? 10, options?.includeMetadata ?? false, options?.namespace
OptionOr(options, field, default) ==
  IF options # None /\ options[1][field] # None
    THEN options[1][field][1]
    ELSE default

SearchNamespace(options) ==
  IF options # None THEN options[1].namespace ELSE None

SearchBody(vector, options) ==
  [vector |-> vector, k |-> OptionOr(options, "k", DEFAULT_K),
   include_metadata |-> OptionOr(options, "includeMetadata", FALSE)]
    @@ NamespaceField(SearchNamespace(options))

DeleteBody(id, namespace) == [id |-> id] @@ NamespaceField(namespace)

\* Variant: no size guard.
BatchTooLarge_Never(vectors) == FALSE

\* batchInsert's guard: vectors.length > 1000 throws before any request.

BatchTooLarge(vectors) == Len(vectors) > MAX_BATCH

BatchTooLargeError ==
  PlainError("Batch insert supports max 1000 vectors per request")

\* ------------------------------------------------------------ transport

\* Variant: the key is sent without the "Bearer " scheme.
RequestHeaders_NoBearer(apiKey) ==
  ("Authorization" :> apiKey)
    @@ ("Content-Type" :> "application/json")
    @@ ("User-Agent" :> "emergentdb-js/0.1.0")

RequestHeaders(apiKey) ==
  ("Authorization" :> ("Bearer " \o apiKey))
    @@ ("Content-Type" :> "application/json")
    @@ ("User-Agent" :> "emergentdb-js/0.1.0")

\* resp.ok
StatusOk(status) == status >= 200 /\ status <= 299

\* JavaScript truthiness of a decoded JSON value.
Truthy(v) ==
  CASE v.type = "null" -> FALSE
    [] v.type = "bool" -> v.val
    [] v.type = "int" -> v.val # 0
    [] v.type = "string" -> v.val # ""
    [] OTHER -> TRUE

\* data.error || `HTTP ${resp.status}`
ErrorMessage(data, status) ==
  IF data.type = "object" /\ "error" \in DOMAIN data.val /\ Truthy(data.val.error)
    THEN data.val.error.val
    ELSE "HTTP " \o ToString(status)

\* Variant: any decoded object of a success response is returned, its
\* fields unchecked.
Outcome_ObjectOnly(schema, resp) ==
  IF ~resp.body.json
    THEN [ok |-> FALSE, error |-> JsonDecodeError]
  ELSE IF ~StatusOk(resp.status)
    THEN IF resp.body.data.type = "null"
           THEN [ok |-> FALSE, error |-> NullDataError]
           ELSE [ok |-> FALSE,
                 error |-> EmergentDBError(ErrorMessage(resp.body.data, resp.status),
                                           resp.status, resp.body.data)]
  ELSE IF resp.body.data.type = "object"
    THEN [ok |-> TRUE,
          value |-> [f \in DOMAIN resp.body.data.val |-> resp.body.data.val[f].val]]
    ELSE [ok |-> FALSE, error |-> SchemaError]

\* Variant: a body the schema rejects is thrown as the HTTP error.
Outcome_WrapsShapeError(schema, resp) ==
  IF ~resp.body.json
    THEN [ok |-> FALSE, error |-> JsonDecodeError]
  ELSE IF ~StatusOk(resp.status)
    THEN IF resp.body.data.type = "null"
           THEN [ok |-> FALSE, error |-> NullDataError]
           ELSE [ok |-> FALSE,
                 error |-> EmergentDBError(ErrorMessage(resp.body.data, resp.status),
                                           resp.status, resp.body.data)]
  ELSE IF Conforms(schema, resp.body.data)
    THEN [ok |-> TRUE, value |-> Parsed(schema, resp.body.data)]
    ELSE [ok |-> FALSE,
          error |-> EmergentDBError("Validation failed", resp.status, resp.body.data)]

\* Variant: the schema is applied before the status is looked at.
Outcome_ValidatesFirst(schema, resp) ==
  IF ~resp.body.json
    THEN [ok |-> FALSE, error |-> JsonDecodeError]
  ELSE IF Conforms(schema, resp.body.data)
    THEN [ok |-> TRUE, value |-> Parsed(schema, resp.body.data)]
  ELSE IF StatusOk(resp.status)
    THEN [ok |-> FALSE, error |-> SchemaError]
  ELSE IF resp.body.data.type = "null"
    THEN [ok |-> FALSE, error |-> NullDataError]
  ELSE [ok |-> FALSE,
        error |-> EmergentDBError(ErrorMessage(resp.body.data, resp.status),
                                  resp.status, resp.body.data)]

\* Variant: the status is looked at before the body is decoded.
Outcome_StatusFirst(schema, resp) ==
  IF ~StatusOk(resp.status)
    THEN IF ~resp.body.json
           THEN [ok |-> FALSE,
                 error |-> EmergentDBError("HTTP " \o ToString(resp.status),
                                           resp.status, JNull)]
         ELSE IF resp.body.data.type = "null"
           THEN [ok |-> FALSE, error |-> NullDataError]
         ELSE [ok |-> FALSE,
               error |-> EmergentDBError(ErrorMessage(resp.body.data, resp.status),
                                         resp.status, resp.body.data)]
  ELSE IF ~resp.body.json
    THEN [ok |-> FALSE, error |-> JsonDecodeError]
  ELSE IF Conforms(schema, resp.body.data)
    THEN [ok |-> TRUE, value |-> Parsed(schema, resp.body.data)]
    ELSE [ok |-> FALSE, error |-> SchemaError]

\* The rest of request() once fetch has resolved with resp: decode the
\* body, throw the normalized error on a non-success status, else parse.
\* [ok |-> TRUE, value |-> v] is a return, [ok |-> FALSE, error |-> e] a throw.
Outcome(schema, resp) ==
  IF ~resp.body.json
    THEN [ok |-> FALSE, error |-> JsonDecodeError]
  ELSE IF ~StatusOk(resp.status)
    THEN IF resp.body.data.type = "null"
           THEN [ok |-> FALSE, error |-> NullDataError]
           ELSE [ok |-> FALSE,
                 error |-> EmergentDBError(ErrorMessage(resp.body.data, resp.status),
                                           resp.status, resp.body.data)]
  ELSE IF Conforms(schema, resp.body.data)
    THEN [ok |-> TRUE, value |-> Parsed(schema, resp.body.data)]
    ELSE [ok |-> FALSE, error |-> SchemaError]

\* ---------------------------------------------------------------- state

VARIABLES
  client,   \* the client object: not yet constructed, constructed, or the
            \* constructor threw
  calls,    \* the calls made on the client, by call slot
  sent,     \* every request handed to fetch, in the order of the fetches
  net,      \* the requests in flight: fetched, no response yet
  recv      \* every response delivered, in the order of delivery

vars == <<client, calls, sent, net, recv>>

CallIds == 1..MaxCalls

\* arg is the key the constructor was called with; apiKey and baseUrl are
\* the fields of the object, set only when the constructor returns.
NoClient ==
  [state |-> "none", arg |-> "", apiKey |-> "", baseUrl |-> "", error |-> None]

\* A call slot nothing was called in.
IdleCall ==
  [op |-> "none", args |-> EmptyObject, pc |-> "idle",
   i |-> 0, allIds |-> <<>>, totalNew |-> 0, totalUpserted |-> 0,
   result |-> None, error |-> None]

\* A call that has begun: its operation and arguments.
NewCall(op, args) == [IdleCall EXCEPT !.op = op, !.args = args]

Awaiting(call) == [call EXCEPT !.pc = "awaiting"]
Returned(call, value) == [call EXCEPT !.pc = "returned", !.result = Some(value)]
Threw(call, error) == [call EXCEPT !.pc = "threw", !.error = Some(error)]

\* --------------------------------------------------------------- inputs

ApiKeys == {"", "emdb", "emdb_", "emdb_live_k1", "sk_live_k1", "x_emdb_k1"}

ClientOptions ==
  {None, Some([baseUrl |-> None]), Some([baseUrl |-> Some("http://localhost:8080")])}

\* A namespace of 65 characters, one more than SearchOptionsSchema allows.
LongNamespace == "n2345678901234567890123456789012345678901234567890123456789012345"

NamespaceArgs ==
  {None, Some(""), Some("default"), Some("production"), Some(LongNamespace)}

\* An entry with a fresh id and no metadata, and one of a family in which
\* ids repeat and every second entry has metadata.
DistinctEntry(k) == [id |-> k, vector |-> <<k % 2, 1>>]
RepeatingEntry(k) ==
  IF k % 2 = 0
    THEN [id |-> (k % 3) + 1, vector |-> <<0, 1>>, metadata |-> [title |-> "doc"]]
    ELSE [id |-> (k % 3) + 1, vector |-> <<1, 0>>]

\* The lengths at and around each multiple of BATCH_SIZE up to MaxChunks
\* chunks, and the lengths in the middle of a chunk.
EdgeLengths ==
  {0, 1, 2} \cup
  {k * BATCH_SIZE + d : k \in 0..(MaxChunks - 1), d \in {1, BATCH_SIZE - 1, BATCH_SIZE}}

MidLengths == {k * BATCH_SIZE + (BATCH_SIZE \div 2) : k \in 0..(MaxChunks - 1)}

Vectors(n) == [k \in 1..n |-> DistinctEntry(k)]
RepeatingVectors(n) == [k \in 1..n |-> RepeatingEntry(k)]

\* The (vectors, namespace) arguments of the batch calls: every namespace
\* with the short inputs, two of them with the long ones.
BatchArgs ==
  ({Vectors(n) : n \in {0, 1, 2}} \cup {RepeatingVectors(2)}) \X NamespaceArgs
  \cup {<<Append(Vectors(1), [id |-> 0, vector |-> <<0, 1>>]), None>>}
  \cup ({Vectors(n) : n \in EdgeLengths \cup MidLengths}
          \cup {RepeatingVectors(n) : n \in MidLengths})
       \X {None, Some("production")}

\* Ids: two that VectorEntrySchema allows and two that it does not.
IdArgs == {1, 42, 0, -7}
QueryVectors == {<<1, 0>>}
MetadataArgs == {None, Some([title |-> "Hello"])}

SearchOptionArgs ==
  {None} \cup
  {Some([k |-> k, includeMetadata |-> m, namespace |-> ns]) :
     k \in {None, Some(5), Some(0), Some(101)}, m \in {None, Some(TRUE)}, ns \in NamespaceArgs}

\* ---------------------------------------------------- the remote service

\* The namespace a request addresses, as the service reads the body.
WireNamespace(req) ==
  IF req.body # None /\ "namespace" \in DOMAIN req.body[1]
    THEN req.body[1].namespace
    ELSE "default"

Response(status, body) == [status |-> status, body |-> body]

\* Responses that are no result, whatever the operation.
FailureResponses ==
  {Response(500, Json(JObj([error |-> JStr("boom")]))),
   Response(404, Json(JObj(EmptyObject))),
   Response(400, Json(JObj([error |-> JStr("")]))),
   Response(401, Json(JNull)),
   Response(502, NotJson),
   Response(200, NotJson),
   Response(200, Json(JNull))}

BatchResultBody(ids, count, namespace, new, upserted) ==
  JObj([success |-> JBool(TRUE), ids |-> JIntArray(ids), count |-> JInt(count),
        namespace |-> JStr(namespace), new_count |-> JInt(new),
        upserted_count |-> JInt(upserted)])

\* The ids of the entries of a batch-insert request, in request order.
RequestIds(req) ==
  [k \in 1..Len(req.body[1].vectors) |-> req.body[1].vectors[k].id]

\* Well-formed batch-insert bodies: one that lists the ids of the request,
\* half of them upserted, and one whose ids and counts have nothing to do
\* with the request or with each other.
BatchSuccessBodies(req) ==
  LET n == Len(req.body[1].vectors)
      ns == WireNamespace(req)
  IN {BatchResultBody(RequestIds(req), n, ns, n - (n \div 2), n \div 2),
      BatchResultBody(<<7, 7, 9>>, 5, ns, 1, 2)}

BatchResponses(req) ==
  LET good == BatchResultBody(RequestIds(req), Len(req.body[1].vectors),
                              WireNamespace(req), Len(req.body[1].vectors), 0)
  IN  {Response(200, Json(b)) : b \in BatchSuccessBodies(req)}
      \cup FailureResponses
      \cup {Response(400, Json(good)),
            Response(200, Json(JObj([f \in DOMAIN good.val \ {"count"} |-> good.val[f]]))),
            Response(200, Json(JObj([good.val EXCEPT !.ids = JStrArray(<<"1">>)])))}

InsertResponses(req) ==
  LET good == JObj([success |-> JBool(TRUE), id |-> JInt(req.body[1].id),
                    namespace |-> JStr(WireNamespace(req)), upserted |-> JBool(FALSE)])
  IN  {Response(200, Json(good)),
       Response(200, Json(JObj([good.val EXCEPT !.upserted = JBool(TRUE)]))),
       Response(400, Json(good)),
       Response(200, Json(JObj([good.val EXCEPT !.id = JFloat("1.5")])))}
      \cup FailureResponses

SearchHit(id, score) == JObj([id |-> JInt(id), score |-> score])

SearchResponses(req) ==
  LET hits == <<SearchHit(1, JInt(0)),
                JObj([id |-> JInt(2), score |-> JFloat("0.25"),
                      metadata |-> JObj([title |-> JStr("doc")])])>>
      good == [results |-> JObjArray(hits), count |-> JInt(2),
               namespace |-> JStr(WireNamespace(req))]
  IN  {Response(200, Json(JObj(good))),
       Response(200, Json(JObj([good EXCEPT !.results = JObjArray(<<>>), !.count = JInt(0)]))),
       Response(200, Json(JObj([good EXCEPT !.count = JInt(7)]))),
       Response(200, Json(JObj([f \in {"results", "count"} |-> good[f]]))),
       Response(200, Json(JObj([f \in {"results", "namespace"} |-> good[f]]))),
       Response(200, Json(JObj([good EXCEPT
          !.results = JObjArray(<<JObj([id |-> JInt(1)])>>)]))),
       Response(400, Json(JObj(good)))}
      \cup FailureResponses

DeleteResponses(req) ==
  LET good == [deleted |-> JBool(TRUE), id |-> JInt(req.body[1].id),
               namespace |-> JStr(WireNamespace(req))]
  IN  {Response(200, Json(JObj(good))),
       Response(200, Json(JObj([good EXCEPT !.deleted = JBool(FALSE)]))),
       Response(200, Json(JObj([f \in {"deleted", "id"} |-> good[f]]))),
       Response(400, Json(JObj(good)))}
      \cup FailureResponses

NamespacesResponses ==
  {Response(200, Json(JObj([namespaces |-> JStrArray(<<"default", "production">>)]))),
   Response(200, Json(JObj([namespaces |-> JStrArray(<<>>)]))),
   Response(200, Json(JObj([namespaces |-> JStr("default")]))),
   Response(200, Json(JObj(EmptyObject)))}
  \cup FailureResponses

\* A value of each type an analytics row may hold.
Sample(t) ==
  CASE t = "string" -> JStr("2026-01-01")
    [] t = "string|number" -> JInt(3)
    [] t = "string|null" -> JNull

\* Answers to an analytics request whose rows are under `field` and have
\* the shape `row`: one row, no row, a row that lacks a column, a row with
\* text where a number may also be text, and a body without the field.
AnalyticsResponses(field, row) ==
  LET good == [f \in DOMAIN row |-> Sample(row[f].type)]
      text == [f \in DOMAIN row |->
                 IF row[f].type = "string|number" THEN JStr("3.5") ELSE good[f]]
      dropped == CHOOSE f \in DOMAIN row : row[f].type = "string|number"
      Body(rows) == Json(JObj([g \in {field} |-> JObjArray(rows)]))
  IN {Response(200, Body(<<JObj(good)>>)),
      Response(200, Body(<<JObj(text), JObj(good)>>)),
      Response(200, Body(<<>>)),
      Response(200, Body(<<JObj([f \in DOMAIN row \ {dropped} |-> good[f]])>>)),
      Response(200, Json(JObj(EmptyObject)))}
     \cup FailureResponses

\* ------------------------------------------------------- the operations

\* new EmergentDB(apiKey, options): throws on a key that is empty or lacks
\* the prefix, else captures the key and the base URL.
Construct(apiKey, options) ==
  /\ client.state = "none"
  /\ client' =
       IF KeyAccepted(apiKey)
         THEN [state |-> "ok", arg |-> apiKey, apiKey |-> apiKey,
               baseUrl |-> BaseUrlOf(options), error |-> None]
         ELSE [NoClient EXCEPT
                 !.state = "threw", !.arg = apiKey,
                 !.error = Some(PlainError("API key must start with \"emdb_\""))]
  /\ UNCHANGED <<calls, sent, net, recv>>

\* Variant: the client remembers the status of the last response and sends
\* it along.
Request_CarriesLastStatus(c, method, path, body) ==
  [call |-> c, method |-> method, url |-> client.baseUrl \o path,
   headers |-> RequestHeaders(client.apiKey)
                 @@ (IF recv = <<>> THEN <<>>
                     ELSE "X-Last-Status" :> ToString(recv[Len(recv)].response.status)),
   body |-> body]

\* The request that request(method, path, schema, body) hands to fetch;
\* body is None for a call without one (body ? JSON.stringify(body) : undefined).
Request(c, method, path, body) ==
  [call |-> c, method |-> method, url |-> client.baseUrl \o path,
   headers |-> RequestHeaders(client.apiKey), body |-> body]

\* What one run of a call's code, up to its next await or its end, leaves:
\* the call's new state and the bodies of the requests it has fetched.
Step(call, fetch) == [call |-> call, fetch |-> fetch]

\* The step's effect on the call slot and on the wire.
Fetched(c, method, path, step, answered) ==
  /\ calls' = [calls EXCEPT ![c] = step.call]
  /\ sent' = sent \o [k \in 1..Len(step.fetch) |->
                        Request(c, method, path, step.fetch[k])]
  /\ net' = (net \ answered) \cup
              {[call |-> c, req |-> Len(sent) + k] : k \in 1..Len(step.fetch)}

\* The operations that GET a list and return it unwrapped: for each, the
\* path, the response schema and the field returned.
Listings ==
  [listNamespaces |->
     [path |-> "/vectors/namespaces", schema |-> NamespacesResponseSchema,
      field |-> "namespaces"],
   analyticsEndpoints |->
     [path |-> "/api/dashboard/analytics/endpoints",
      schema |-> EndpointsResponseSchema, field |-> "endpoints"],
   analyticsNamespaces |->
     [path |-> "/api/dashboard/analytics/namespaces",
      schema |-> NamespaceAnalyticsResponseSchema, field |-> "namespaces"],
   analyticsLatency |->
     [path |-> "/api/dashboard/analytics/latency",
      schema |-> LatencyResponseSchema, field |-> "latency"],
   analyticsErrors |->
     [path |-> "/api/dashboard/analytics/errors",
      schema |-> ErrorsResponseSchema, field |-> "errors"],
   analyticsKeys |->
     [path |-> "/api/dashboard/analytics/keys",
      schema |-> KeysResponseSchema, field |-> "keys"],
   analyticsGrowth |->
     [path |-> "/api/dashboard/analytics/growth",
      schema |-> GrowthResponseSchema, field |-> "growth"]]

AnalyticsOps == DOMAIN Listings \ {"listNamespaces"}

Method(op) == IF op \in DOMAIN Listings THEN "GET" ELSE "POST"

Path(op) ==
  CASE op = "insert" -> "/vectors/insert"
    [] op \in {"batchInsert", "batchInsertAll"} -> "/vectors/batch_insert"
    [] op = "search" -> "/vectors/search"
    [] op = "delete" -> "/vectors/delete"
    [] op \in DOMAIN Listings -> Listings[op].path

Schema(op) ==
  CASE op = "insert" -> InsertResultSchema
    [] op \in {"batchInsert", "batchInsertAll"} -> BatchInsertResultSchema
    [] op = "search" -> SearchResponseSchema
    [] op = "delete" -> DeleteResultSchema
    [] op \in DOMAIN Listings -> Listings[op].schema

\* A call may begin in slot c: the client exists and the slot is unused.
Callable(c) == client.state = "ok" /\ calls[c].pc = "idle"

\* A call that is one request: it begins by fetching it.
Begin(c, op, args, body) ==
  /\ Callable(c)
  /\ Fetched(c, Method(op), Path(op), Step(Awaiting(NewCall(op, args)), <<body>>), {})
  /\ UNCHANGED <<client, recv>>

Insert(c, id, vector, metadata, namespace) ==
  Begin(c, "insert",
        [id |-> id, vector |-> vector, metadata |-> metadata, namespace |-> namespace],
        Some(InsertBody(id, vector, metadata, namespace)))

Search(c, vector, options) ==
  Begin(c, "search", [vector |-> vector, options |-> options],
        Some(SearchBody(vector, options)))

Delete(c, id, namespace) ==
  Begin(c, "delete", [id |-> id, namespace |-> namespace],
        Some(DeleteBody(id, namespace)))

ListNamespaces(c) == Begin(c, "listNamespaces", EmptyObject, None)

AnalyticsEndpoints(c) == Begin(c, "analyticsEndpoints", EmptyObject, None)

AnalyticsNamespaces(c) == Begin(c, "analyticsNamespaces", EmptyObject, None)

AnalyticsLatency(c) == Begin(c, "analyticsLatency", EmptyObject, None)

AnalyticsErrors(c) == Begin(c, "analyticsErrors", EmptyObject, None)

AnalyticsKeys(c) == Begin(c, "analyticsKeys", EmptyObject, None)

AnalyticsGrowth(c) == Begin(c, "analyticsGrowth", EmptyObject, None)

\* batchInsert(vectors, namespace) up to its fetch: the size guard, then
\* the request.
BatchInsertStep(call, vectors, namespace) ==
  IF BatchTooLarge(vectors)
    THEN Step(Threw(call, BatchTooLargeError), <<>>)
    ELSE Step(Awaiting(call), <<Some(BatchInsertBody(vectors, namespace))>>)

BatchInsert(c, vectors, namespace) ==
  /\ Callable(c)
  /\ Fetched(c, "POST", Path("batchInsert"),
             BatchInsertStep(NewCall("batchInsert",
                                     [vectors |-> vectors, namespace |-> namespace]),
                             vectors, namespace),
             {})
  /\ UNCHANGED <<client, recv>>

\* Variant: the chunks are requested together, none awaited before the next.
LoopIssues_FanOut(i, n) ==
  [k \in 1..((n - i + BATCH_SIZE - 1) \div BATCH_SIZE) |-> i + (k - 1) * BATCH_SIZE]

\* Variant: the loop body runs once before the loop condition is looked at.
LoopIssues_DoWhile(i, n) == IF i < n \/ i = 0 THEN <<i>> ELSE <<>>

\* The offsets of the chunks whose requests the loop of batchInsertAll
\* issues, at loop variable i, before the call suspends: the loop body
\* awaits its batchInsert, so it is the one chunk at i, if i < length.

LoopIssues(i, n) == IF i < n THEN <<i>> ELSE <<>>

\* Variant: the chunk ends one entry early.
ChunkAt_DropsLast(vectors, i) == Slice(vectors, i, i + BATCH_SIZE - 1)

\* vectors.slice(i, i + BATCH_SIZE)

ChunkAt(vectors, i) == Slice(vectors, i, i + BATCH_SIZE)

\* Variant: the two sums change places.
Aggregate_SwappedCounts(call) ==
  [ids |-> call.allIds, count |-> Len(call.allIds),
   new_count |-> call.totalUpserted, upserted_count |-> call.totalNew]

\* Variant: count is the number of new entries.
Aggregate_CountIsNewCount(call) ==
  [ids |-> call.allIds, count |-> call.totalNew,
   new_count |-> call.totalNew, upserted_count |-> call.totalUpserted]

\* The value batchInsertAll returns after its loop.

Aggregate(call) ==
  [ids |-> call.allIds, count |-> Len(call.allIds),
   new_count |-> call.totalNew, upserted_count |-> call.totalUpserted]

\* The loop of batchInsertAll from its head, at call.i: the next chunk goes
\* through batchInsert, and past the last chunk the aggregate is returned.
BatchInsertAllLoop(call) ==
  LET vectors == call.args.vectors
      starts == LoopIssues(call.i, Len(vectors))
      steps == [k \in 1..Len(starts) |->
                  BatchInsertStep(call, ChunkAt(vectors, starts[k]), call.args.namespace)]
  IN  IF starts = <<>>
        THEN Step(Returned(call, Aggregate(call)), <<>>)
      ELSE IF \E k \in 1..Len(steps) : steps[k].call.pc = "threw"
        THEN steps[CHOOSE k \in 1..Len(steps) : steps[k].call.pc = "threw"]
      ELSE Step(Awaiting(call), [k \in 1..Len(steps) |-> steps[k].fetch[1]])

BatchInsertAll(c, vectors, namespace) ==
  /\ Callable(c)
  /\ Fetched(c, "POST", Path("batchInsertAll"),
             BatchInsertAllLoop(NewCall("batchInsertAll",
                                        [vectors |-> vectors, namespace |-> namespace])),
             {})
  /\ UNCHANGED <<client, recv>>

\* Variant: the ids of the entries sent are collected, not those answered.
Accumulate_RequestIds(call, result) ==
  [call EXCEPT
     !.allIds = @ \o [k \in 1..Len(ChunkAt(call.args.vectors, call.i)) |->
                        ChunkAt(call.args.vectors, call.i)[k].id],
     !.totalNew = @ + result.new_count,
     !.totalUpserted = @ + result.upserted_count,
     !.i = @ + BATCH_SIZE]

\* Variant: allIds is replaced by the ids of the last chunk.
Accumulate_KeepsLastIds(call, result) ==
  [call EXCEPT
     !.allIds = result.ids,
     !.totalNew = @ + result.new_count,
     !.totalUpserted = @ + result.upserted_count,
     !.i = @ + BATCH_SIZE]

\* Variant: the sums are replaced by the counts of the last chunk.
Accumulate_OverwritesTotals(call, result) ==
  [call EXCEPT
     !.allIds = @ \o result.ids,
     !.totalNew = result.new_count,
     !.totalUpserted = result.upserted_count,
     !.i = @ + BATCH_SIZE]

\* Variant: allIds is one list on the client, shared by all calls: it holds
\* the ids of every batch response delivered so far.
Accumulate_SharedIds(call, result) ==
  [call EXCEPT
     !.allIds =
        LET earlier == SelectSeq(recv, LAMBDA d :
                         /\ StatusOk(d.response.status)
                         /\ d.response.body.json
                         /\ Conforms(BatchInsertResultSchema, d.response.body.data))
            Ids[m \in 0..Len(earlier)] ==
              IF m = 0 THEN <<>>
              ELSE Ids[m - 1] \o earlier[m].response.body.data.val.ids.val
        IN  Ids[Len(earlier)] \o result.ids,
     !.totalNew = @ + result.new_count,
     !.totalUpserted = @ + result.upserted_count,
     !.i = @ + BATCH_SIZE]

\* The loop body after the await: allIds.push(...result.ids) and the two
\* sums; then i += BATCH_SIZE.
Accumulate(call, result) ==
  [call EXCEPT
     !.allIds = @ \o result.ids,
     !.totalNew = @ + result.new_count,
     !.totalUpserted = @ + result.upserted_count,
     !.i = @ + BATCH_SIZE]

\* Variant: batchInsertAll skips a chunk that failed and goes on.
Resume_KeepGoing(call, resp) ==
  LET out == Outcome(Schema(call.op), resp)
  IN  IF call.op = "batchInsertAll"
        THEN BatchInsertAllLoop(
               IF out.ok THEN Accumulate(call, out.value)
                         ELSE [call EXCEPT !.i = @ + BATCH_SIZE])
      ELSE IF ~out.ok THEN Step(Threw(call, out.error), <<>>)
      ELSE Step(Returned(call, out.value), <<>>)

\* Variant: a delete answered with an error status is sent once more.
Resume_RetriesFailure(call, resp) ==
  LET out == Outcome(Schema(call.op), resp)
  IN  IF ~out.ok
        THEN IF call.op = "delete" /\ ~StatusOk(resp.status)
               THEN Step(call, <<Some(DeleteBody(call.args.id, call.args.namespace))>>)
               ELSE Step(Threw(call, out.error), <<>>)
      ELSE IF call.op = "batchInsertAll"
        THEN BatchInsertAllLoop(Accumulate(call, out.value))
      ELSE IF call.op \in DOMAIN Listings
        THEN Step(Returned(call, out.value[Listings[call.op].field]), <<>>)
      ELSE Step(Returned(call, out.value), <<>>)

\* Variant: delete treats deleted: false as a failure.
Resume_ThrowsWhenNotDeleted(call, resp) ==
  LET out == Outcome(Schema(call.op), resp)
  IN  IF ~out.ok THEN Step(Threw(call, out.error), <<>>)
      ELSE IF call.op = "batchInsertAll"
        THEN BatchInsertAllLoop(Accumulate(call, out.value))
      ELSE IF call.op \in DOMAIN Listings
        THEN Step(Returned(call, out.value[Listings[call.op].field]), <<>>)
      ELSE IF call.op = "delete" /\ ~out.value.deleted
        THEN Step(Threw(call, PlainError("Vector not found")), <<>>)
      ELSE Step(Returned(call, out.value), <<>>)

\* Variant: search sets count to the number of results it returns.
Resume_SearchRecounts(call, resp) ==
  LET out == Outcome(Schema(call.op), resp)
  IN  IF ~out.ok THEN Step(Threw(call, out.error), <<>>)
      ELSE IF call.op = "batchInsertAll"
        THEN BatchInsertAllLoop(Accumulate(call, out.value))
      ELSE IF call.op \in DOMAIN Listings
        THEN Step(Returned(call, out.value[Listings[call.op].field]), <<>>)
      ELSE IF call.op = "search"
        THEN Step(Returned(call, [out.value EXCEPT !.count = Len(out.value.results)]),
                  <<>>)
      ELSE Step(Returned(call, out.value), <<>>)

\* Variant: batchInsertAll neither throws nor goes on when a chunk failed.
Resume_HangsOnFailure(call, resp) ==
  LET out == Outcome(Schema(call.op), resp)
  IN  IF ~out.ok
        THEN IF call.op = "batchInsertAll"
               THEN Step(call, <<>>)
               ELSE Step(Threw(call, out.error), <<>>)
      ELSE IF call.op = "batchInsertAll"
        THEN BatchInsertAllLoop(Accumulate(call, out.value))
      ELSE IF call.op \in DOMAIN Listings
        THEN Step(Returned(call, out.value[Listings[call.op].field]), <<>>)
      ELSE Step(Returned(call, out.value), <<>>)

\* A call's code from the delivery of a response to its next await or end.
\* A failed exchange ends every operation with its error.
Resume(call, resp) ==
  LET out == Outcome(Schema(call.op), resp)
  IN  IF ~out.ok THEN Step(Threw(call, out.error), <<>>)
      ELSE IF call.op = "batchInsertAll"
        THEN BatchInsertAllLoop(Accumulate(call, out.value))
      ELSE IF call.op \in DOMAIN Listings
        THEN Step(Returned(call, out.value[Listings[call.op].field]), <<>>)
      ELSE Step(Returned(call, out.value), <<>>)

ResponsesTo(op, req) ==
  CASE op = "insert" -> InsertResponses(req)
    [] op \in {"batchInsert", "batchInsertAll"} -> BatchResponses(req)
    [] op = "search" -> SearchResponses(req)
    [] op = "delete" -> DeleteResponses(req)
    [] op = "listNamespaces" -> NamespacesResponses
    [] op \in AnalyticsOps ->
         AnalyticsResponses(Listings[op].field,
                            Listings[op].schema[Listings[op].field].elem)

\* The service answers a request in flight and the call that awaits it runs
\* on.
Respond(r) ==
  /\ r \in net
  /\ \E resp \in ResponsesTo(calls[r.call].op, sent[r.req]) :
       /\ recv' = Append(recv, [call |-> r.call, req |-> r.req, response |-> resp])
       /\ Fetched(r.call, Method(calls[r.call].op), Path(calls[r.call].op),
                  Resume(calls[r.call], resp), {r})
  /\ UNCHANGED client

\* -------------------------------------------------------- specification

Init ==
  /\ client = NoClient
  /\ calls = [c \in CallIds |-> IdleCall]
  /\ sent = <<>>
  /\ net = {}
  /\ recv = <<>>

\* One call is made on the client: it is the first, in the first slot.
Sole(c) == c = 1 /\ \A d \in CallIds : calls[d].pc = "idle"

Next ==
  \/ \E apiKey \in ApiKeys, options \in ClientOptions : Construct(apiKey, options)
  \/ \E c \in CallIds, id \in IdArgs, vector \in QueryVectors,
        metadata \in MetadataArgs, namespace \in NamespaceArgs :
       Sole(c) /\ Insert(c, id, vector, metadata, namespace)
  \/ \E c \in CallIds, args \in BatchArgs :
       Sole(c) /\ BatchInsert(c, args[1], args[2])
  \/ \E c \in CallIds, args \in BatchArgs :
       Sole(c) /\ BatchInsertAll(c, args[1], args[2])
  \/ \E c \in CallIds, vector \in QueryVectors, options \in SearchOptionArgs :
       Sole(c) /\ Search(c, vector, options)
  \/ \E c \in CallIds, id \in IdArgs, namespace \in NamespaceArgs :
       Sole(c) /\ Delete(c, id, namespace)
  \/ \E c \in CallIds : Sole(c) /\ ListNamespaces(c)
  \/ \E c \in CallIds : Sole(c) /\ AnalyticsEndpoints(c)
  \/ \E c \in CallIds : Sole(c) /\ AnalyticsNamespaces(c)
  \/ \E c \in CallIds : Sole(c) /\ AnalyticsLatency(c)
  \/ \E c \in CallIds : Sole(c) /\ AnalyticsErrors(c)
  \/ \E c \in CallIds : Sole(c) /\ AnalyticsKeys(c)
  \/ \E c \in CallIds : Sole(c) /\ AnalyticsGrowth(c)
  \/ \E r \in net : Respond(r)

Spec == Init /\ [][Next]_vars

\* --------------------------------------------------------------- claims

\* The requests call c has fetched and the responses delivered to it, in
\* order, and its requests in flight.
RequestsOf(c) == SelectSeq(sent, LAMBDA r : r.call = c)
ResponsesOf(c) == SelectSeq(recv, LAMBDA d : d.call = c)
InFlightOf(c) == {r \in net : r.call = c}

RECURSIVE Concat(_)
Concat(seqs) == IF seqs = <<>> THEN <<>> ELSE Head(seqs) \o Concat(Tail(seqs))

HasKeyPrefix(s) == Len(s) >= 5 /\ SubSeq(s, 1, 5) = "emdb_"

IsBatchInsertAll(c) == calls[c].op = "batchInsertAll"

\* The entries a batch-insert request carries.
EntriesOf(req) == req.body[1].vectors

\* A response that is a failed exchange of a batch insert: a status that is
\* not a success, a body that does not decode, or one the schema rejects.
FailedBatchResponse(resp) ==
  \/ resp.status < 200
  \/ resp.status > 299
  \/ ~resp.body.json
  \/ ~Conforms(BatchInsertResultSchema, resp.body.data)

\* C1: a constructor call with a key that is empty or does not start with
\* "emdb_" throws, and no request is ever sent with such a key: once the
\* constructor has run on such a key the client is in its thrown state and
\* nothing was sent or is in flight, and every request sent carries the key
\* of a constructed client, which starts with "emdb_".
C1_NoRequestWithoutKeyPrefix ==
  /\ (client.state # "none" /\ ~HasKeyPrefix(client.arg)) =>
       /\ client.state = "threw"
       /\ client.error # None
       /\ sent = <<>>
       /\ net = {}
       /\ \A c \in CallIds : calls[c].pc = "idle"
  /\ \A k \in 1..Len(sent) :
       /\ client.state = "ok"
       /\ HasKeyPrefix(client.apiKey)
       /\ sent[k].headers["Authorization"] = "Bearer " \o client.apiKey

\* The constructor has thrown on a key that is not empty and lacks the prefix.
C1_Witness == client.state = "threw" /\ client.arg = "sk_live_k1"

\* C2: a batchInsert call with more than 1000 entries has ended with a
\* client-side error (a plain Error, not the HTTP error) and has sent no
\* request.
C2_OversizedBatchSendsNothing ==
  \A c \in CallIds :
    (calls[c].op = "batchInsert" /\ Len(calls[c].args.vectors) > 1000) =>
      /\ calls[c].pc = "threw"
      /\ calls[c].error # None
      /\ calls[c].error[1].name = "Error"
      /\ calls[c].error[1].status = None
      /\ calls[c].result = None
      /\ RequestsOf(c) = <<>>
      /\ InFlightOf(c) = {}

\* batchInsert was called with 1001 entries and threw.
C2_Witness ==
  \E c \in CallIds :
    /\ calls[c].op = "batchInsert"
    /\ Len(calls[c].args.vectors) = 1001
    /\ calls[c].pc = "threw"

\* C3: the j-th request of a batchInsertAll call (j from 0) carries the
\* input entries at the positions 1000*j .. min(1000*(j+1), n) - 1 in input
\* order; a call that returned (every chunk succeeded) sent ceil(n/1000)
\* requests whose chunks, concatenated, are the input; for n = 2500 the
\* chunk sizes are 1000, 1000, 500.
C3_ChunksPartitionInput ==
  \A c \in CallIds :
    IsBatchInsertAll(c) =>
      LET input == calls[c].args.vectors
          n == Len(input)
          reqs == RequestsOf(c)
      IN  /\ \A j \in 1..Len(reqs) :
               EntriesOf(reqs[j]) =
                 SubSeq(input, 1000 * (j - 1) + 1, IF 1000 * j < n THEN 1000 * j ELSE n)
          /\ calls[c].pc = "returned" =>
               /\ Len(reqs) = (n + 999) \div 1000
               /\ Concat([j \in 1..Len(reqs) |-> EntriesOf(reqs[j])]) = input
               /\ n = 2500 =>
                    [j \in 1..Len(reqs) |-> Len(EntriesOf(reqs[j]))] = <<1000, 1000, 500>>

\* A batchInsertAll call of 2500 entries has returned after three requests.
C3_Witness ==
  \E c \in CallIds :
    /\ IsBatchInsertAll(c)
    /\ Len(calls[c].args.vectors) = 2500
    /\ calls[c].pc = "returned"
    /\ Len(RequestsOf(c)) = 3

\* C4: a batchInsertAll call has at most one request in flight, and every
\* request of it but the last has been answered and its response
\* accumulated (the loop variable has moved past its chunk) before the next
\* one was sent.
C4_ChunksStrictlySequential ==
  \A c \in CallIds :
    IsBatchInsertAll(c) =>
      LET mine == {k \in 1..Len(sent) : sent[k].call = c}
      IN  /\ Cardinality(InFlightOf(c)) <= 1
          /\ Cardinality(mine) <= Len(ResponsesOf(c)) + 1
          /\ \A k \in mine :
               (\E later \in mine : later > k) =>
                 /\ [call |-> c, req |-> k] \notin net
                 /\ \E m \in 1..Len(recv) : recv[m].req = k
                 /\ calls[c].i >= 1000 * Cardinality({j \in mine : j <= k})

\* The second chunk of a batchInsertAll call is in flight, the first answered.
C4_Witness ==
  \E c \in CallIds :
    /\ IsBatchInsertAll(c)
    /\ Len(RequestsOf(c)) = 2
    /\ Len(ResponsesOf(c)) = 1
    /\ Cardinality(InFlightOf(c)) = 1

\* C5: once a chunk request of a batchInsertAll call has failed, the call
\* has ended with that chunk's error and no aggregate, the failed exchange
\* is the last thing the call did (no request after it, none in flight),
\* and every request the call ever sent is a batch insert (no delete, no
\* rollback of the chunks before it).
C5_AbortsAtFirstFailedChunk ==
  \A c \in CallIds :
    IsBatchInsertAll(c) =>
      LET resps == ResponsesOf(c)
          reqs == RequestsOf(c)
      IN  \A m \in 1..Len(resps) :
            FailedBatchResponse(resps[m].response) =>
              /\ m = Len(resps)
              /\ Len(reqs) = m
              /\ InFlightOf(c) = {}
              /\ calls[c].pc = "threw"
              /\ calls[c].result = None
              /\ calls[c].error = Some(Outcome(BatchInsertResultSchema,
                                               resps[m].response).error)
              /\ (resps[m].response.body.json
                    /\ resps[m].response.body.data.type = "object"
                    /\ (resps[m].response.status < 200 \/ resps[m].response.status > 299)) =>
                   /\ calls[c].error[1].name = "EmergentDBError"
                   /\ calls[c].error[1].status = Some(resps[m].response.status)
              /\ \A j \in 1..Len(reqs) :
                   /\ reqs[j].method = "POST"
                   /\ reqs[j].url = client.baseUrl \o "/vectors/batch_insert"

\* The second chunk of a batchInsertAll call of three chunks has failed
\* after the first succeeded.
C5_Witness ==
  \E c \in CallIds :
    /\ IsBatchInsertAll(c)
    /\ Len(calls[c].args.vectors) > 2000
    /\ Len(ResponsesOf(c)) = 2
    /\ ~FailedBatchResponse(ResponsesOf(c)[1].response)
    /\ FailedBatchResponse(ResponsesOf(c)[2].response)
    /\ calls[c].pc = "threw"

\* The ids of a delivered batch-insert response, as the service sent them.
ResponseIds(d) == d.response.body.data.val.ids.val

\* C6: the ids a batchInsertAll call returns are the ids of its chunk
\* responses, concatenated in chunk order, repeated ids kept.
C6_IdsAreConcatenatedResponses ==
  \A c \in CallIds :
    (IsBatchInsertAll(c) /\ calls[c].pc = "returned") =>
      LET resps == ResponsesOf(c)
      IN  calls[c].result[1].ids =
            Concat([m \in 1..Len(resps) |-> ResponseIds(resps[m])])

\* A batchInsertAll call has returned after two chunks whose responses
\* list different ids, the second with an id repeated.
C6_Witness ==
  \E c \in CallIds :
    /\ IsBatchInsertAll(c)
    /\ calls[c].pc = "returned"
    /\ Len(ResponsesOf(c)) = 2
    /\ ResponseIds(ResponsesOf(c)[2]) = <<7, 7, 9>>
    /\ ResponseIds(ResponsesOf(c)[1]) # <<7, 7, 9>>
    /\ Len(calls[c].result[1].ids) = 1003

\* C7: a batchInsertAll call with no entries has sent no request and has
\* returned ids = <<>>, count = 0, new_count = 0, upserted_count = 0.
C7_EmptyInputReturnsZeroAggregate ==
  \A c \in CallIds :
    (IsBatchInsertAll(c) /\ Len(calls[c].args.vectors) = 0) =>
      /\ calls[c].pc = "returned"
      /\ calls[c].result =
           Some([ids |-> <<>>, count |-> 0, new_count |-> 0, upserted_count |-> 0])
      /\ calls[c].error = None
      /\ RequestsOf(c) = <<>>
      /\ InFlightOf(c) = {}

\* batchInsertAll was called with no entries.
C7_Witness ==
  \E c \in CallIds :
    /\ IsBatchInsertAll(c)
    /\ calls[c].args.vectors = <<>>
    /\ calls[c].pc = "returned"

IsReturnedBatchInsert(c) == calls[c].op = "batchInsert" /\ calls[c].pc = "returned"

\* C8 as stated: every result batchInsert returns satisfies
\* count = new_count + upserted_count = length(ids).
C8_ReturnedBatchResultIsConsistent ==
  \A c \in CallIds :
    IsReturnedBatchInsert(c) =>
      /\ calls[c].result[1].count =
           calls[c].result[1].new_count + calls[c].result[1].upserted_count
      /\ calls[c].result[1].count = Len(calls[c].result[1].ids)

\* C8, amended: every result batchInsert returns is the body of a
\* success-status response that has the six fields of the schema, ids an
\* array of integers and the three counts integers, returned with the
\* values the service sent; so the equality holds of a result exactly when
\* it holds of the response.
C8_ReturnedBatchResultIsTheValidatedBody ==
  \A c \in CallIds :
    IsReturnedBatchInsert(c) =>
      LET result == calls[c].result[1]
          resp == ResponsesOf(c)[1].response
          body == resp.body.data.val
      IN  /\ Len(ResponsesOf(c)) = 1
          /\ resp.status >= 200 /\ resp.status <= 299
          /\ resp.body.json /\ resp.body.data.type = "object"
          /\ DOMAIN result =
               {"success", "ids", "count", "namespace", "new_count", "upserted_count"}
          /\ DOMAIN result \subseteq DOMAIN body
          /\ body.ids.type = "intarray"
          /\ \A f \in {"count", "new_count", "upserted_count"} : body[f].type = "int"
          /\ \A f \in DOMAIN result : result[f] = body[f].val

\* batchInsert has returned a result whose count is neither the length of
\* its ids nor the sum of its two other counts.
C8_Witness ==
  \E c \in CallIds :
    /\ IsReturnedBatchInsert(c)
    /\ calls[c].result[1].count # Len(calls[c].result[1].ids)
    /\ calls[c].result[1].count #
         calls[c].result[1].new_count + calls[c].result[1].upserted_count

\* What batchInsert returns for the arguments of call c when the service
\* answers its request with resp.
BatchInsertReturns(c, resp) ==
  Resume(Awaiting(NewCall("batchInsert", calls[c].args)), resp).call.result[1]

\* A batchInsertAll call of one chunk that has returned.
IsReturnedSingleChunk(c) ==
  /\ IsBatchInsertAll(c)
  /\ calls[c].pc = "returned"
  /\ Len(calls[c].args.vectors) <= 1000
  /\ Len(ResponsesOf(c)) = 1

\* C9 as stated: for an input of one chunk, batchInsertAll returns the very
\* value batchInsert returns for that input and response.
C9_AggregateEqualsBatchInsertResult ==
  \A c \in CallIds :
    IsReturnedSingleChunk(c) =>
      calls[c].result[1] = BatchInsertReturns(c, ResponsesOf(c)[1].response)

\* C9, amended: for an input of one chunk, batchInsertAll returns the ids,
\* new_count and upserted_count that batchInsert returns for that input and
\* response, and a count that is the length of those ids; it has these four
\* fields only, not the success and namespace fields of batchInsert's result.
C9_AggregateAgreesOnIdsAndSums ==
  \A c \in CallIds :
    IsReturnedSingleChunk(c) =>
      LET all == calls[c].result[1]
          one == BatchInsertReturns(c, ResponsesOf(c)[1].response)
      IN  /\ DOMAIN all = {"ids", "count", "new_count", "upserted_count"}
          /\ {"success", "namespace"} \subseteq DOMAIN one
          /\ all.ids = one.ids
          /\ all.new_count = one.new_count
          /\ all.upserted_count = one.upserted_count
          /\ all.count = Len(one.ids)

\* A batchInsertAll call of one chunk has returned a count that is not the
\* count batchInsert returns for the same response.
C9_Witness ==
  \E c \in CallIds :
    /\ IsReturnedSingleChunk(c)
    /\ calls[c].result[1].count #
         BatchInsertReturns(c, ResponsesOf(c)[1].response).count

\* The namespace argument of a call (for search, options?.namespace).
NamespaceArg(call) ==
  IF call.op = "search"
    THEN IF call.args.options = None THEN None ELSE call.args.options[1].namespace
    ELSE call.args.namespace

\* C10: a request of insert, batchInsert (also when batchInsertAll makes
\* it), search or delete whose namespace argument is absent or is "default"
\* has a body, and the body has no namespace field.
C10_DefaultNamespaceNotOnWire ==
  \A k \in 1..Len(sent) :
    LET call == calls[sent[k].call]
    IN  (/\ call.op \in {"insert", "batchInsert", "batchInsertAll", "search", "delete"}
         /\ NamespaceArg(call) \in {None, Some("default")}) =>
          /\ sent[k].body # None
          /\ "namespace" \notin DOMAIN sent[k].body[1]

\* An insert with the namespace argument "default" has sent its request.
C10_Witness ==
  \E k \in 1..Len(sent) :
    /\ calls[sent[k].call].op = "insert"
    /\ calls[sent[k].call].args.namespace = Some("default")

\* The four operations that take a namespace.
NamespacedOps == {"insert", "batchInsert", "search", "delete"}

\* A call has ended: it returned or it threw.
Ended(call) == call.pc \in {"returned", "threw"}

\* C11: every request of insert, batchInsert, search or delete whose
\* namespace argument is present and is a string other than "default", the
\* empty string included, has a body with a namespace field equal to the
\* argument.
C11_GivenNamespaceOnWire ==
  \A k \in 1..Len(sent) :
    LET call == calls[sent[k].call]
    IN  (/\ call.op \in NamespacedOps
         /\ NamespaceArg(call) # None
         /\ NamespaceArg(call) # Some("default")) =>
          /\ sent[k].body # None
          /\ "namespace" \in DOMAIN sent[k].body[1]
          /\ sent[k].body[1].namespace = NamespaceArg(call)[1]

\* The k option of a search call, if given.
KArg(call) ==
  IF call.args.options = None THEN None ELSE call.args.options[1].k

\* The call's input breaks a constraint of SearchOptionsSchema: a k outside
\* 1..100, or a namespace of more than 64 characters.
BreaksOptionLimits(call) ==
  \/ call.op = "search" /\ KArg(call) # None /\ KArg(call)[1] \notin 1..100
  \/ /\ call.op \in NamespacedOps
     /\ NamespaceArg(call) # None
     /\ Len(NamespaceArg(call)[1]) > 64

\* C12: a search whose k is given and is not in 1..100, and an insert,
\* batchInsert, search or delete whose namespace is longer than 64
\* characters, never returns a result, and when it has ended it has thrown
\* a validation error, which is not the HTTP error.
C12_OptionLimitsRejected ==
  \A c \in CallIds :
    (BreaksOptionLimits(calls[c]) /\ Ended(calls[c])) =>
      /\ calls[c].pc = "threw"
      /\ calls[c].result = None
      /\ calls[c].error[1].name = "ValidationError"

\* The ids of the entries a request of insert or batchInsert carries.
IdsOnWire(req) ==
  IF "vectors" \in DOMAIN req.body[1]
    THEN {req.body[1].vectors[j].id : j \in 1..Len(req.body[1].vectors)}
    ELSE {req.body[1].id}

\* C13: no request of insert or batchInsert carries an entry whose id is
\* not a positive integer: every id on the wire is positive.
C13_NoRequestWithNonPositiveId ==
  \A k \in 1..Len(sent) :
    calls[sent[k].call].op \in {"insert", "batchInsert"} =>
      \A id \in IdsOnWire(sent[k]) : id > 0

\* The message the claim gives the error of a response: the error field of
\* the body when the body has one, "HTTP <status>" otherwise.
ClaimedMessage(resp) ==
  IF /\ resp.body.json
     /\ resp.body.data.type = "object"
     /\ "error" \in DOMAIN resp.body.data.val
    THEN resp.body.data.val.error.val
    ELSE "HTTP " \o ToString(resp.status)

\* C14: every response delivered with a status outside 200..299, whatever
\* its body, has ended its call with an EmergentDBError whose status is the
\* status of the response, whose body is the decoded body (when the body
\* decodes) and whose message is the body's error field when the body has
\* one and "HTTP <status>" otherwise.
C14_ErrorStatusGivesEmergentDBError ==
  \A m \in 1..Len(recv) :
    LET resp == recv[m].response
        call == calls[recv[m].call]
    IN  ~StatusOk(resp.status) =>
          /\ call.pc = "threw"
          /\ call.error[1].name = "EmergentDBError"
          /\ call.error[1].status = Some(resp.status)
          /\ resp.body.json => call.error[1].body = Some(resp.body.data)
          /\ call.error[1].message = ClaimedMessage(resp)

\* A response with a success status whose body decodes and is rejected by
\* the schema of the operation.
ShapeFailure(op, resp) ==
  /\ StatusOk(resp.status)
  /\ resp.body.json
  /\ ~Conforms(Schema(op), resp.body.data)

\* C15: every response delivered with a success status whose decoded body
\* the schema of the operation rejects has ended its call with a thrown
\* error that is not an EmergentDBError (it is the schema's validation
\* error and carries neither status nor body), and the call has no result.
C15_ShapeFailureIsItsOwnError ==
  \A m \in 1..Len(recv) :
    LET call == calls[recv[m].call]
    IN  ShapeFailure(call.op, recv[m].response) =>
          /\ call.pc = "threw"
          /\ call.result = None
          /\ call.error[1].name = "ValidationError"
          /\ call.error[1].name # "EmergentDBError"
          /\ call.error[1].status = None
          /\ call.error[1].body = None

\* A search was answered 200 with an object that has no count, and threw.
C15_Witness ==
  \E m \in 1..Len(recv) :
    /\ calls[recv[m].call].op = "search"
    /\ calls[recv[m].call].pc = "threw"
    /\ ShapeFailure("search", recv[m].response)
    /\ recv[m].response.body.data.type = "object"
    /\ "count" \notin DOMAIN recv[m].response.body.data.val

\* The fields of the operation's response schema that a decoded object
\* lacks.
MissingFields(op, data) == DOMAIN Schema(op) \ DOMAIN data.val

\* A response with a success status whose body decodes to an object.
SuccessObject(resp) ==
  StatusOk(resp.status) /\ resp.body.json /\ resp.body.data.type = "object"

\* The call threw the schema's validation error and has no result.
ThrewShapeError(call) ==
  /\ call.pc = "threw"
  /\ call.result = None
  /\ call.error[1].name = "ValidationError"

\* C16 as stated: for every operation and every field of its response
\* schema, a success response whose body lacks the field has ended its call
\* with the response-shape error; no missing field is filled in.
C16_MissingFieldRaises ==
  \A m \in 1..Len(recv) :
    LET call == calls[recv[m].call]
        resp == recv[m].response
    IN  (SuccessObject(resp) /\ MissingFields(call.op, resp.body.data) # {}) =>
          ThrewShapeError(call)

\* C16, amended: a success response whose body lacks a field of the
\* operation's response schema has ended its call with the response-shape
\* error, except that a search response lacking only namespace, and well
\* formed otherwise, is returned with namespace "default".
C16_MissingFieldRaisesExceptSearchNamespace ==
  \A m \in 1..Len(recv) :
    LET call == calls[recv[m].call]
        resp == recv[m].response
        missing == MissingFields(call.op, resp.body.data)
        defaulted == call.op = "search" /\ missing = {"namespace"}
    IN  SuccessObject(resp) =>
          /\ (missing # {} /\ ~defaulted) => ThrewShapeError(call)
          /\ (defaulted /\ Conforms(SearchResponseSchema, resp.body.data)) =>
                /\ call.pc = "returned"
                /\ call.result[1].namespace = "default"
                /\ call.result[1].count = resp.body.data.val.count.val

\* A search has returned on a body that lacks only namespace.
C16_Witness ==
  \E m \in 1..Len(recv) :
    /\ calls[recv[m].call].op = "search"
    /\ SuccessObject(recv[m].response)
    /\ MissingFields("search", recv[m].response.body.data) = {"namespace"}
    /\ calls[recv[m].call].pc = "returned"

\* Every error raised so far: the constructor's and each call's.
ErrorsRaised ==
  (IF client.state = "threw" THEN {client.error[1]} ELSE {})
  \cup {calls[c].error[1] : c \in {d \in CallIds : calls[d].pc = "threw"}}

\* C17 as stated: every error raised by the constructor or by an operation
\* carries a machine-readable status and a human-readable message.
C17_EveryErrorCarriesStatus ==
  \A e \in ErrorsRaised : e.status # None /\ e.message # ""

\* C17, amended: every error raised carries a message; it carries a status
\* (and a body) exactly when it is the EmergentDBError of a response with a
\* non-success status, and that status is the status of the response. The
\* constructor's error and the batch-size error are plain errors without
\* status.
C17_OnlyHttpErrorCarriesStatus ==
  /\ \A e \in ErrorsRaised :
       /\ e.message # ""
       /\ e.status # None <=> e.name = "EmergentDBError"
       /\ e.body # None <=> e.name = "EmergentDBError"
  /\ client.state = "threw" => client.error[1].name = "Error"
  /\ \A c \in CallIds :
       calls[c].pc = "threw" =>
         LET e == calls[c].error[1]
             answers == ResponsesOf(c)
         IN  /\ answers = <<>> =>
                  /\ calls[c].op = "batchInsert"
                  /\ e = PlainError("Batch insert supports max 1000 vectors per request")
             /\ e.name = "EmergentDBError" =>
                  /\ answers # <<>>
                  /\ ~StatusOk(answers[Len(answers)].response.status)
                  /\ e.status = Some(answers[Len(answers)].response.status)

\* A batchInsert has thrown the batch-size error, which has no status.
C17_Witness ==
  \E c \in CallIds :
    /\ calls[c].op = "batchInsert"
    /\ calls[c].pc = "threw"
    /\ calls[c].error[1].name = "Error"
    /\ calls[c].error[1].status = None

\* The call is of an operation that is one request: insert, search,
\* delete, listNamespaces, an analytics method, or a batchInsert of at most
\* 1000 entries.
IsSingleRequestCall(call) ==
  \/ call.op \in {"insert", "search", "delete"} \cup DOMAIN Listings
  \/ call.op = "batchInsert" /\ Len(call.args.vectors) <= 1000

\* The exchange failed: an error status, a body that does not decode, or a
\* body the schema of the operation rejects.
FailedExchange(op, resp) ==
  \/ ~StatusOk(resp.status)
  \/ ~resp.body.json
  \/ ~Conforms(Schema(op), resp.body.data)

\* C18: a call of insert, search, delete, listNamespaces, an analytics
\* method, or batchInsert with at most 1000 entries has issued exactly one
\* request; until the response comes the request is in flight; once the
\* call has ended it has had exactly one response and nothing is in
\* flight, and when that exchange failed the call threw the error of the
\* exchange and has no result (no retry, no fallback value).
C18_OneRequestPerCall ==
  \A c \in CallIds :
    (calls[c].pc # "idle" /\ IsSingleRequestCall(calls[c])) =>
      /\ Len(RequestsOf(c)) = 1
      /\ ~Ended(calls[c]) =>
            /\ ResponsesOf(c) = <<>>
            /\ Cardinality(InFlightOf(c)) = 1
      /\ Ended(calls[c]) =>
            /\ Len(ResponsesOf(c)) = 1
            /\ InFlightOf(c) = {}
            /\ LET resp == ResponsesOf(c)[1].response
               IN  IF FailedExchange(calls[c].op, resp)
                     THEN /\ calls[c].pc = "threw"
                          /\ calls[c].result = None
                          /\ calls[c].error =
                               Some(Outcome(Schema(calls[c].op), resp).error)
                     ELSE /\ calls[c].pc = "returned"
                          /\ calls[c].error = None

\* An analytics call has thrown after its one request was answered 500.
C18_Witness ==
  \E c \in CallIds :
    /\ calls[c].op = "analyticsGrowth"
    /\ calls[c].pc = "threw"
    /\ Len(RequestsOf(c)) = 1
    /\ ResponsesOf(c)[1].response.status = 500

\* ------------------------------------------- the service as documented

\* The (namespace, id) pairs the service holds once it has given its first
\* m answers: an insert or batch insert adds its ids to the namespace the
\* request addresses (creating it), a delete removes its id from it.
RECURSIVE StoreAfter(_)
StoreAfter(m) ==
  IF m = 0 THEN {}
  ELSE LET prev == StoreAfter(m - 1)
           req == sent[recv[m].req]
           op == calls[req.call].op
           ns == WireNamespace(req)
       IN  IF ~StatusOk(recv[m].response.status) THEN prev
           ELSE CASE op = "insert" -> prev \cup {<<ns, req.body[1].id>>}
                  [] op = "batchInsert" ->
                       prev \cup {<<ns, EntriesOf(req)[j].id>> :
                                    j \in 1..Len(EntriesOf(req))}
                  [] op = "delete" -> prev \ {<<ns, req.body[1].id>>}
                  [] OTHER -> prev

RECURSIVE SortedIds(_)
\* The ids of a set in ascending order.
SortedIds(ids) ==
  IF ids = {} THEN <<>>
  ELSE LET least == CHOOSE i \in ids : \A j \in ids : i <= j
       IN  <<least>> \o SortedIds(ids \ {least})

\* The answer of the service to a request when it holds `store`: inserts
\* succeed and say whether the id was there, a search returns at most k of
\* the ids of its namespace and of no other, a delete says whether the id
\* was there and is no error when it was not.
ServiceAnswer(req, store) ==
  LET op == calls[req.call].op
      ns == WireNamespace(req)
      held == {p[2] : p \in {q \in store : q[1] = ns}}
  IN  CASE op = "insert" ->
             Response(200, Json(JObj(
               [success |-> JBool(TRUE), id |-> JInt(req.body[1].id),
                namespace |-> JStr(ns), upserted |-> JBool(req.body[1].id \in held)])))
        [] op = "batchInsert" ->
             LET ids == RequestIds(req)
                 old == {k \in 1..Len(ids) :
                           ids[k] \in held \/ \E j \in 1..(k - 1) : ids[j] = ids[k]}
             IN  Response(200, Json(BatchResultBody(
                   ids, Len(ids), ns, Len(ids) - Cardinality(old), Cardinality(old))))
        [] op = "search" ->
             LET found == SortedIds(held)
                 top == SubSeq(found, 1, Min(req.body[1].k, Len(found)))
             IN  Response(200, Json(JObj(
                   [results |-> JObjArray([j \in 1..Len(top) |-> SearchHit(top[j], JInt(1))]),
                    count |-> JInt(Len(top)), namespace |-> JStr(ns)])))
        [] op = "delete" ->
             Response(200, Json(JObj(
               [deleted |-> JBool(req.body[1].id \in held), id |-> JInt(req.body[1].id),
                namespace |-> JStr(ns)])))

\* The service answers a request in flight as documented and the call that
\* awaits it runs on.
Serve(r) ==
  /\ r \in net
  /\ LET resp == ServiceAnswer(sent[r.req], StoreAfter(Len(recv)))
     IN  /\ recv' = Append(recv, [call |-> r.call, req |-> r.req, response |-> resp])
         /\ Fetched(r.call, Method(calls[r.call].op), Path(calls[r.call].op),
                    Resume(calls[r.call], resp), {r})
  /\ UNCHANGED client

\* Calls are made one after the other: slot c is next when every earlier
\* slot holds a call that has ended.
InTurn(c) == \A d \in CallIds : d < c => calls[d].pc \in {"returned", "threw"}

StoreNamespaceArgs == {None, Some(""), Some("default"), Some("production")}

StoreSearchOptions ==
  {None} \cup
  {Some([k |-> None, includeMetadata |-> None, namespace |-> ns]) :
     ns \in StoreNamespaceArgs \ {None}}

\* A client that makes up to MaxCalls calls in sequence against the service
\* as documented.
StoreNext ==
  \/ Construct("emdb_live_k1", None)
  \/ \E c \in CallIds, namespace \in StoreNamespaceArgs :
       InTurn(c) /\ Insert(c, 1, <<1, 0>>, None, namespace)
  \/ \E c \in CallIds, namespace \in StoreNamespaceArgs :
       InTurn(c) /\ BatchInsert(c, Vectors(2), namespace)
  \/ \E c \in CallIds, options \in StoreSearchOptions :
       InTurn(c) /\ Search(c, <<1, 0>>, options)
  \/ \E c \in CallIds, namespace \in StoreNamespaceArgs :
       InTurn(c) /\ Delete(c, 1, namespace)
  \/ \E r \in net : Serve(r)

SpecStore == Init /\ [][StoreNext]_vars

\* The calls before call s that inserted id and returned.
InsertsBefore(id, s) ==
  {d \in CallIds :
     /\ d < s
     /\ calls[d].pc = "returned"
     /\ \/ calls[d].op = "insert" /\ calls[d].args.id = id
        \/ /\ calls[d].op = "batchInsert"
           /\ \E j \in 1..Len(calls[d].args.vectors) : calls[d].args.vectors[j].id = id}

\* The ids a returned search holds.
ResultIds(call) == {call.result[1].results[j].id : j \in 1..Len(call.result[1].results)}

\* C19: against the service as documented, a search made without a
\* namespace returns no id that was inserted only under namespaces other
\* than "default" (some earlier insert of the id named no namespace or
\* "default"), and a search of a namespace other than "default" returns no
\* id that was inserted only without a namespace.
C19_NamespaceIsolation ==
  \A s \in CallIds :
    (calls[s].op = "search" /\ calls[s].pc = "returned") =>
      \A id \in ResultIds(calls[s]) :
        /\ NamespaceArg(calls[s]) = None =>
             \E d \in InsertsBefore(id, s) :
               NamespaceArg(calls[d]) \in {None, Some("default")}
        /\ NamespaceArg(calls[s]) \notin {None, Some("default")} =>
             \E d \in InsertsBefore(id, s) : NamespaceArg(calls[d]) # None

\* C20: against the service as documented, every delete that was answered
\* has returned, without an error, a DeleteResult whose deleted flag and id
\* are those of the service's answer; when the id was not in the namespace
\* the flag is FALSE and the call has still returned, so a second delete
\* of the same id does not throw.
C20_DeleteOfAbsentIdReturns ==
  \A m \in 1..Len(recv) :
    LET call == calls[recv[m].call]
        req == sent[recv[m].req]
        answer == recv[m].response.body.data.val
    IN  call.op = "delete" =>
          /\ call.pc = "returned"
          /\ call.error = None
          /\ call.result[1].deleted = answer.deleted.val
          /\ call.result[1].id = answer.id.val
          /\ call.result[1].namespace = answer.namespace.val
          /\ <<WireNamespace(req), req.body[1].id>> \notin StoreAfter(m - 1) =>
                call.result[1].deleted = FALSE

\* Two deletes of the same id in the same namespace, one after the other,
\* have both returned, the second with deleted FALSE.
C20_Witness ==
  \E c \in CallIds, d \in CallIds :
    /\ d = c + 1
    /\ calls[c].op = "delete" /\ calls[d].op = "delete"
    /\ calls[c].args = calls[d].args
    /\ calls[c].pc = "returned" /\ calls[d].pc = "returned"
    /\ calls[d].result[1].deleted = FALSE

\* The decoded body of the response a returned search call had.
SearchAnswer(c) == ResponsesOf(c)[1].response.body.data.val

IsReturnedSearch(c) == calls[c].op = "search" /\ calls[c].pc = "returned"

\* C21 as stated: every SearchResponse that search returns has a count
\* equal to the number of its results.
C21_SearchCountIsResultLength ==
  \A c \in CallIds :
    IsReturnedSearch(c) =>
      calls[c].result[1].count = Len(calls[c].result[1].results)

\* C21, amended: every SearchResponse that search returns has the count and
\* the results of the response body, unchanged: as many results, with the
\* ids of the body in the body's order, and the body's count, whether or
\* not the two agree.
C21_SearchReturnsCountOfBody ==
  \A c \in CallIds :
    IsReturnedSearch(c) =>
      LET result == calls[c].result[1]
          body == SearchAnswer(c)
      IN  /\ result.count = body.count.val
          /\ Len(result.results) = Len(body.results.val)
          /\ \A j \in 1..Len(result.results) :
               result.results[j].id = body.results.val[j].val.id.val

\* A search has returned a count that is not the number of its results.
C21_Witness ==
  \E c \in CallIds :
    /\ IsReturnedSearch(c)
    /\ calls[c].result[1].count = 7
    /\ Len(calls[c].result[1].results) = 2

RECURSIVE Sum(_)
\* The sum of a sequence of integers.
Sum(seq) == IF seq = <<>> THEN 0 ELSE Head(seq) + Sum(Tail(seq))

\* A field of each chunk response of a call, in chunk order.
ChunkField(c, field) ==
  [m \in 1..Len(ResponsesOf(c)) |->
     ResponsesOf(c)[m].response.body.data.val[field].val]

IsReturnedBatchInsertAll(c) == IsBatchInsertAll(c) /\ calls[c].pc = "returned"

\* C22 as stated: the count a batchInsertAll call returns is the sum of
\* the count fields of its chunk responses.
C22_CountIsSumOfChunkCounts ==
  \A c \in CallIds :
    IsReturnedBatchInsertAll(c) =>
      calls[c].result[1].count = Sum(ChunkField(c, "count"))

\* C22, amended: the count a batchInsertAll call returns is the sum of the
\* numbers of ids its chunk responses list; it is the sum of their count
\* fields when each response's count is the number of ids it lists.
C22_CountIsSumOfChunkIdLengths ==
  \A c \in CallIds :
    IsReturnedBatchInsertAll(c) =>
      LET lengths == [m \in 1..Len(ResponsesOf(c)) |-> Len(ChunkField(c, "ids")[m])]
      IN  /\ calls[c].result[1].count = Sum(lengths)
          /\ lengths = ChunkField(c, "count") =>
               calls[c].result[1].count = Sum(ChunkField(c, "count"))

\* A batchInsertAll call has returned after two chunks, one of whose
\* responses has a count that is not the number of its ids.
C22_Witness ==
  \E c \in CallIds :
    /\ IsReturnedBatchInsertAll(c)
    /\ Len(ResponsesOf(c)) = 2
    /\ ChunkField(c, "count")[2] = 5
    /\ Len(ChunkField(c, "ids")[2]) = 3
    /\ calls[c].result[1].count # Sum(ChunkField(c, "count"))

\* C23: the new_count a batchInsertAll call returns is the sum of the
\* new_count fields of its chunk responses, and the upserted_count the sum
\* of their upserted_count fields.
C23_NewAndUpsertedAreSums ==
  \A c \in CallIds :
    IsReturnedBatchInsertAll(c) =>
      /\ calls[c].result[1].new_count = Sum(ChunkField(c, "new_count"))
      /\ calls[c].result[1].upserted_count = Sum(ChunkField(c, "upserted_count"))

\* A batchInsertAll call has returned after three chunks with different
\* new and upserted sums.
C23_Witness ==
  \E c \in CallIds :
    /\ IsReturnedBatchInsertAll(c)
    /\ Len(ResponsesOf(c)) = 3
    /\ calls[c].result[1].new_count > 1000
    /\ calls[c].result[1].new_count # calls[c].result[1].upserted_count

\* C29: every aggregate a batchInsertAll call returns has a count equal to
\* the length of its ids, whatever counts the chunk responses reported.
C29_AggregateCountIsIdsLength ==
  \A c \in CallIds :
    IsReturnedBatchInsertAll(c) =>
      calls[c].result[1].count = Len(calls[c].result[1].ids)

\* A batchInsertAll call has returned ids whose number is not the sum of
\* the counts the chunk responses reported.
C29_Witness ==
  \E c \in CallIds :
    /\ IsReturnedBatchInsertAll(c)
    /\ Len(calls[c].result[1].ids) # Sum(ChunkField(c, "count"))
    /\ calls[c].result[1].ids # <<>>

\* C24: a response delivered with a non-success status has ended its call
\* with a thrown error that is not the response-shape error, and the call
\* has no result, also when the body is a well-formed result of the
\* operation.
C24_ErrorStatusNeverValidated ==
  \A m \in 1..Len(recv) :
    LET call == calls[recv[m].call]
    IN  ~StatusOk(recv[m].response.status) =>
          /\ call.pc = "threw"
          /\ call.result = None
          /\ call.error[1].name # "ValidationError"

\* An insert was answered 400 with a body that is a well-formed InsertResult
\* and threw the HTTP error.
C24_Witness ==
  \E m \in 1..Len(recv) :
    /\ calls[recv[m].call].op = "insert"
    /\ recv[m].response.status = 400
    /\ recv[m].response.body.json
    /\ Conforms(InsertResultSchema, recv[m].response.body.data)
    /\ calls[recv[m].call].pc = "threw"
    /\ calls[recv[m].call].error[1].name = "EmergentDBError"

\* C25: a response delivered with a body that is not JSON text, whatever
\* its status, has ended its call with the decoding failure of resp.json():
\* the error is neither the HTTP error nor the response-shape error, it
\* carries no status, and the call has no result.
C25_UndecodableBodyIsDecodingFailure ==
  \A m \in 1..Len(recv) :
    LET call == calls[recv[m].call]
    IN  ~recv[m].response.body.json =>
          /\ call.pc = "threw"
          /\ call.result = None
          /\ call.error[1].name = "SyntaxError"
          /\ call.error[1].status = None

\* A call was answered 502 with a body that is not JSON and threw.
C25_Witness ==
  \E m \in 1..Len(recv) :
    /\ recv[m].response.status = 502
    /\ ~recv[m].response.body.json
    /\ calls[recv[m].call].pc = "threw"

\* C26: every request sent carries exactly the three headers, Authorization
\* being "Bearer " and the key given to the constructor; a request of
\* listNamespaces or of an analytics method is a GET without body, and a
\* request of insert, batchInsert (also from batchInsertAll), search or
\* delete is a POST with a body.
C26_HeadersMethodAndBody ==
  \A k \in 1..Len(sent) :
    LET op == calls[sent[k].call].op
    IN  /\ DOMAIN sent[k].headers = {"Authorization", "Content-Type", "User-Agent"}
        /\ sent[k].headers["Authorization"] = "Bearer " \o client.arg
        /\ sent[k].headers["Content-Type"] = "application/json"
        /\ sent[k].headers["User-Agent"] = "emergentdb-js/0.1.0"
        /\ op \in DOMAIN Listings => sent[k].method = "GET" /\ sent[k].body = None
        /\ op \notin DOMAIN Listings =>
             /\ op \in {"insert", "batchInsert", "batchInsertAll", "search", "delete"}
             /\ sent[k].method = "POST"
             /\ sent[k].body # None

\* An analytics request was sent: a GET without body.
C26_Witness ==
  \E k \in 1..Len(sent) :
    /\ calls[sent[k].call].op = "analyticsKeys"
    /\ sent[k].method = "GET"
    /\ sent[k].body = None

\* ------------------------------------------------- calls in sequence

\* The answers tried when calls follow each other: the well-formed results
\* of the operation and one failure.
SeqResponses(op, req) ==
  {resp \in ResponsesTo(op, req) :
     \/ resp.status = 500
     \/ /\ StatusOk(resp.status)
        /\ resp.body.json
        /\ Conforms(Schema(op), resp.body.data)}

\* The service answers a request in flight with one of these.
RespondSeq(r) ==
  /\ r \in net
  /\ \E resp \in SeqResponses(calls[r.call].op, sent[r.req]) :
       /\ recv' = Append(recv, [call |-> r.call, req |-> r.req, response |-> resp])
       /\ Fetched(r.call, Method(calls[r.call].op), Path(calls[r.call].op),
                  Resume(calls[r.call], resp), {r})
  /\ UNCHANGED client

SeqClientOptions == {None, Some([baseUrl |-> Some("http://localhost:8080")])}

\* A client that makes up to MaxCalls calls, each after the one before has
\* ended, against a service that answers each with a result or a failure.
SeqNext ==
  \/ \E options \in SeqClientOptions : Construct("emdb_live_k1", options)
  \/ \E c \in CallIds, namespace \in {None, Some("production")} :
       InTurn(c) /\ Insert(c, 1, <<1, 0>>, None, namespace)
  \/ \E c \in CallIds : InTurn(c) /\ BatchInsertAll(c, Vectors(2), None)
  \/ \E c \in CallIds : InTurn(c) /\ Search(c, <<1, 0>>, None)
  \/ \E c \in CallIds : InTurn(c) /\ Delete(c, 1, None)
  \/ \E c \in CallIds : InTurn(c) /\ ListNamespaces(c)
  \/ \E r \in net : RespondSeq(r)

SpecSeq == Init /\ [][SeqNext]_vars

\* A request without the slot of the call that sent it.
Anonymous(req) == [f \in DOMAIN req \ {"call"} |-> req[f]]

\* C27: after any sequence of calls, successful or failed, the client's key
\* is the key given to the constructor, every request sent so far went to
\* the client's base URL with that key, and two calls of the same operation
\* with the same arguments have sent the same requests, whatever happened
\* to the calls before them.
C27_ClientIsStateless ==
  /\ client.state = "ok" => client.apiKey = client.arg
  /\ \A k \in 1..Len(sent) :
       /\ sent[k].url = client.baseUrl \o Path(calls[sent[k].call].op)
       /\ sent[k].headers = RequestHeaders(client.arg)
  /\ \A c \in CallIds, d \in CallIds :
       (/\ calls[c].pc # "idle"
        /\ calls[c].op = calls[d].op
        /\ calls[c].args = calls[d].args) =>
         \A j \in 1..Min(Len(RequestsOf(c)), Len(RequestsOf(d))) :
           Anonymous(RequestsOf(c)[j]) = Anonymous(RequestsOf(d)[j])

\* The same insert was made twice: the first threw, the second has sent its
\* request.
C27_Witness ==
  /\ calls[1].op = "insert" /\ calls[2].op = "insert"
  /\ calls[1].args = calls[2].args
  /\ calls[1].pc = "threw"
  /\ Len(RequestsOf(2)) = 1

\* ------------------------------------------------- concurrent calls

\* The two calls that run at the same time.
Pair == {1, 2}

\* Their inputs: one of two chunks and one of MaxChunks - 1 chunks, of
\* different lengths and namespaces.
PairArgs ==
  {<<Vectors(BATCH_SIZE + 1), None>>,
   <<RepeatingVectors((MaxChunks - 2) * BATCH_SIZE + (BATCH_SIZE \div 2)),
     Some("production")>>}

\* Two batchInsertAll calls are started on one client at any time, and the
\* service answers the requests in flight in any order.
PairNext ==
  \/ Construct("emdb_live_k1", None)
  \/ \E c \in Pair, args \in PairArgs : BatchInsertAll(c, args[1], args[2])
  \/ \E r \in net : RespondSeq(r)

SpecPair == Init /\ [][PairNext]_vars

\* The j-th chunk of a call's input.
OwnChunk(c, j) ==
  LET input == calls[c].args.vectors
      last == IF BATCH_SIZE * j < Len(input) THEN BATCH_SIZE * j ELSE Len(input)
  IN  SubSeq(input, BATCH_SIZE * (j - 1) + 1, last)

\* C28: with two batchInsertAll calls running at once, under every
\* interleaving, the requests of each call are the chunks of its own input
\* in input order with its own namespace, every response delivered to a
\* call answers one of its own requests, and the aggregate a call returns
\* is built from the responses to its own requests only.
C28_ConcurrentCallsDoNotInterfere ==
  /\ \A m \in 1..Len(recv) : sent[recv[m].req].call = recv[m].call
  /\ \A c \in CallIds :
       IsBatchInsertAll(c) =>
         /\ \A j \in 1..Len(RequestsOf(c)) :
              /\ EntriesOf(RequestsOf(c)[j]) = OwnChunk(c, j)
              /\ RequestsOf(c)[j].body[1] =
                   BatchInsertBody(OwnChunk(c, j), calls[c].args.namespace)
         /\ calls[c].pc = "returned" =>
              LET result == calls[c].result[1]
              IN  /\ result.ids = Concat(ChunkField(c, "ids"))
                  /\ result.count = Len(result.ids)
                  /\ result.new_count = Sum(ChunkField(c, "new_count"))
                  /\ result.upserted_count = Sum(ChunkField(c, "upserted_count"))

\* Both calls have returned, their requests having been sent in turn and
\* the second call's first chunk answered before the first call's.
C28_Witness ==
  /\ calls[1].pc = "returned" /\ calls[2].pc = "returned"
  /\ calls[1].args # calls[2].args
  /\ sent[1].call = 1 /\ sent[2].call = 2
  /\ recv[1].call = 2 /\ recv[2].call = 1
  /\ calls[1].result[1].ids # calls[2].result[1].ids

\* ------------------------------------------------------------ progress

\* One batchInsertAll call, of an input of any of the edge lengths, against
\* a service that answers as it likes.
LiveNext ==
  \/ Construct("emdb_live_k1", None)
  \/ \E c \in CallIds, n \in EdgeLengths :
       Sole(c) /\ BatchInsertAll(c, Vectors(n), None)
  \/ \E r \in net : Respond(r)

\* Every HTTP exchange completes: a request in flight is eventually
\* answered, with a response or a failure.
SpecLive == Init /\ [][LiveNext]_vars /\ WF_vars(\E r \in net : Respond(r))

\* ceil(n / BATCH_SIZE)
ChunkCount(n) == (n + BATCH_SIZE - 1) \div BATCH_SIZE

\* C30: when every exchange completes, a batchInsertAll call that has begun
\* eventually has returned or thrown, and at no time has it issued more
\* than ceil(n / 1000) requests for its n entries.
C30_BatchInsertAllTerminates ==
  /\ [](\A c \in CallIds :
          IsBatchInsertAll(c) =>
            Len(RequestsOf(c)) <= ChunkCount(Len(calls[c].args.vectors)))
  /\ \A c \in CallIds :
       IsBatchInsertAll(c) ~> (IsBatchInsertAll(c) /\ Ended(calls[c]))

\* A batchInsertAll call of MaxChunks full chunks has returned after
\* MaxChunks requests.
C30_Witness ==
  \E c \in CallIds :
    /\ IsReturnedBatchInsertAll(c)
    /\ Len(calls[c].args.vectors) = MaxChunks * BATCH_SIZE
    /\ Len(RequestsOf(c)) = MaxChunks

====
